---- MODULE Spec2Model ----
(***************************************************************************)
(* Verification model of the drama-frontend feed: the episode lock         *)
(* evaluator, the feed scroll coordinator, the unlock / purchase           *)
(* orchestration of the feed page and of the story page, the video         *)
(* player's playback fetch, the wallet purchase modal, and the auth        *)
(* store with its persisted storage and the ApiClient's token.             *)
(***************************************************************************)
EXTENDS Integers, FiniteSets, Sequences, Bags, TLC

\* ---------------------------------------------------------------- bounds
NumEpisodes == 4
MaxSeq == 3
MaxInflight == 2
MaxTimers == 2
MaxChains == 2
MaxPurchases == 2
MaxCalls == 2

\* ------------------------------------------------------------- constants
NULL == "null"
Absent == 0 - 1
SwipeThreshold == 50
DefaultFreeEpisodeCount == 1
StoryFreeEpisodeCount == 3
DefaultUnlockCost == 10
FetchRetries == 3
innerHeight == 2

IdPool == <<"ep-a", "ep-b", "ep-c", "ep-d", "ep-e">>
EpisodeIds == {IdPool[i] : i \in 1..NumEpisodes}

VARIABLES
    \* lock evaluator under test
    lkEpisode, lkFree, lkUnlocked, lkResult,
    \* FeedScroll
    currentIndex, touchStartY, scrollTop, scrollTimeout, advanceTimers,
    isPlaying,
    \* auth store
    user, balance, isAuthenticated,
    \* page state (FeedPage / StoryClient)
    episodes, freeEpisodeCount, optimisticUnlocked, buyModalOpen,
    pendingUnlockEpisodeId, narrative, unlockedFlags, route,
    \* backend and requests in flight
    inflight, serverUnlocked,
    \* video elements of the slides (VideoPlayer play/pause effect)
    videoMounted, videoPaused, playerRevision,
    \* one VideoPlayer: props, local state, playback-URL fetch chains
    plMounted, plEpisodeId, plUserId, plIsLocked,
    videoUrl, playerIsLoading, playerError, chains, chainsStarted,
    \* BuyCoinsModal
    walletConnected, modalOpen, buyIsLoading, buyError, buyPc, buyLog,
    purchasedCalls, purchasedBalance,
    \* auth store, persisted storage and ApiClient (session model)
    userEmail, token, apiToken, authIsLoading, authError, hasHydrated,
    storage, authCalls, authorization,
    \* last handler that ran
    last

lockVars == <<lkEpisode, lkFree, lkUnlocked, lkResult>>
navVars == <<currentIndex, touchStartY, scrollTop, scrollTimeout,
             advanceTimers, isPlaying>>
storeVars == <<user, balance, isAuthenticated>>
pageVars == <<episodes, freeEpisodeCount, optimisticUnlocked, buyModalOpen,
              pendingUnlockEpisodeId, narrative, unlockedFlags, route>>
netVars == <<inflight, serverUnlocked>>
stageVars == <<videoMounted, videoPaused, playerRevision>>
playerVars == <<plMounted, plEpisodeId, plUserId, plIsLocked,
                videoUrl, playerIsLoading, playerError, chains,
                chainsStarted>>
buyVars == <<walletConnected, modalOpen, buyIsLoading, buyError, buyPc,
             buyLog, purchasedCalls, purchasedBalance>>
authVars == <<userEmail, token, apiToken, authIsLoading, authError,
              hasHydrated, storage, authCalls, authorization>>
extVars == <<stageVars, playerVars, buyVars, authVars>>
vars == <<lockVars, navVars, storeVars, pageVars, netVars, extVars, last>>

\* ------------------------------------------------------- lock evaluator
\* a slip that treats the boundary episode as paid
checkIsLocked_offByOne(episode, free, unlockedSet) ==
    IF episode.sequenceNumber < free THEN FALSE
    ELSE episode.episodeId \notin unlockedSet

checkIsLocked(episode, free, unlockedSet) ==
    IF episode.sequenceNumber <= free THEN FALSE
    ELSE episode.episodeId \notin unlockedSet

\* the earlier revision of FeedScroll: no unlocked set is consulted
checkIsLockedStub(episode, free) ==
    IF episode.sequenceNumber <= free THEN FALSE
    ELSE TRUE

\* ------------------------------------------------------ shared helpers
Episode(i) == [episodeId |-> IdPool[i], sequenceNumber |-> i]
EpisodeList(uc, tc) ==
    [i \in 1..NumEpisodes |->
        [episodeId |-> IdPool[i], sequenceNumber |-> i,
         unlockCost |-> uc, tokenCost |-> tc]]
Indices == 0..(NumEpisodes - 1)

Last(op, ep, n) == [op |-> op, ep |-> ep, n |-> n]
NoTimers == [i \in Indices |-> 0]
RECURSIVE SumUpTo(_, _)
SumUpTo(f, i) == IF i < 0 THEN 0 ELSE f[i] + SumUpTo(f, i - 1)
TimerCount == SumUpTo(advanceTimers, NumEpisodes - 1)

Abs(x) == IF x < 0 THEN 0 - x ELSE x
\* Math.round(scrollTop / window.innerHeight): halves round up
RoundDiv(a, b) == (2 * a + b) \div (2 * b)

LockIdle ==
    /\ lkEpisode = Episode(1)
    /\ lkFree = 0
    /\ lkUnlocked = {}
    /\ lkResult = [by |-> "none", val |-> FALSE]
NavIdle ==
    /\ currentIndex = 0
    /\ touchStartY = 0
    /\ scrollTop = 0
    /\ scrollTimeout = FALSE
    /\ advanceTimers = NoTimers
    /\ isPlaying = FALSE
StoreIdle ==
    /\ user = NULL
    /\ balance = 0
    /\ isAuthenticated = FALSE
PageIdle ==
    /\ episodes = EpisodeList(Absent, Absent)
    /\ freeEpisodeCount = DefaultFreeEpisodeCount
    /\ optimisticUnlocked = {}
    /\ buyModalOpen = FALSE
    /\ pendingUnlockEpisodeId = NULL
    /\ narrative = {}
    /\ unlockedFlags = {}
    /\ route = "/feed"
NetIdle ==
    /\ inflight = [e \in EpisodeIds |-> 0]
    /\ serverUnlocked = {}

StageIdle ==
    /\ videoMounted = [i \in Indices |-> FALSE]
    /\ videoPaused = [i \in Indices |-> TRUE]
    /\ playerRevision = "video-player"
NoUrl == [ep |-> NULL, user |-> NULL]
PlayerIdle ==
    /\ plMounted = FALSE
    /\ plEpisodeId = IdPool[1]
    /\ plUserId = "public"
    /\ plIsLocked = TRUE
    /\ videoUrl = NoUrl
    /\ playerIsLoading = TRUE
    /\ playerError = NULL
    /\ chains = EmptyBag
    /\ chainsStarted = 0
BuyIdle ==
    /\ walletConnected = FALSE
    /\ modalOpen = FALSE
    /\ buyIsLoading = FALSE
    /\ buyError = NULL
    /\ buyPc = "idle"
    /\ buyLog = <<>>
    /\ purchasedCalls = 0
    /\ purchasedBalance = Absent
\* the store's initial state, as partialize persists it
NoSession ==
    [user |-> NULL, email |-> NULL, token |-> NULL, balance |-> 0,
     isAuthenticated |-> FALSE]
NoAuthorization == [scheme |-> "none", credentials |-> NULL]
AuthIdle ==
    /\ userEmail = NULL
    /\ token = NULL
    /\ apiToken = NULL
    /\ authIsLoading = FALSE
    /\ authError = NULL
    /\ hasHydrated = FALSE
    /\ storage = NoSession
    /\ authCalls = EmptyBag
    /\ authorization = NoAuthorization
ExtIdle == StageIdle /\ PlayerIdle /\ BuyIdle /\ AuthIdle

\* ------------------------------------------- lock evaluator, exercised
InitLock ==
    /\ lkEpisode \in [episodeId : EpisodeIds, sequenceNumber : 1..MaxSeq]
    /\ lkFree \in 0..MaxSeq
    /\ lkUnlocked \in SUBSET EpisodeIds
    /\ lkResult = [by |-> "none", val |-> FALSE]
    /\ NavIdle /\ StoreIdle /\ PageIdle /\ NetIdle /\ ExtIdle
    /\ last = Last("init", NULL, 0)

RenderSlide ==
    /\ lkResult' = [by |-> "checkIsLocked",
                    val |-> checkIsLocked(lkEpisode, lkFree, lkUnlocked)]
    /\ last' = Last("checkIsLocked", lkEpisode.episodeId, 0)
    /\ UNCHANGED <<lkEpisode, lkFree, lkUnlocked>>
    /\ UNCHANGED <<navVars, storeVars, pageVars, netVars, extVars>>

RenderSlideStub ==
    /\ lkResult' = [by |-> "checkIsLockedStub",
                    val |-> checkIsLockedStub(lkEpisode, lkFree)]
    /\ last' = Last("checkIsLockedStub", lkEpisode.episodeId, 0)
    /\ UNCHANGED <<lkEpisode, lkFree, lkUnlocked>>
    /\ UNCHANGED <<navVars, storeVars, pageVars, netVars, extVars>>

NextLock == RenderSlide \/ RenderSlideStub
SpecLock == InitLock /\ [][NextLock]_vars

\* ------------------------------------------------ FeedScroll navigation
TouchYs == {0, 40, 50, 51, 101}
ScrollTops == (0 - innerHeight)..(NumEpisodes * innerHeight)

\* onIndexChange = setCurrentIndex; a changed index re-runs the scroll
\* effect, whose cleanup clears the pending debounce timer
OnIndexChange(newIndex) ==
    /\ currentIndex' = newIndex
    /\ scrollTimeout' = IF newIndex # currentIndex THEN FALSE ELSE scrollTimeout

\* a slip that marks every slide up to the current one
isActive_upTo(index) == index <= currentIndex

\* the isActive prop FeedScroll's render hands to the slide at position index
isActive(index) == index = currentIndex

handleTouchStart(y) ==
    /\ touchStartY' = y
    /\ last' = Last("handleTouchStart", NULL, y)
    /\ UNCHANGED <<currentIndex, scrollTop, scrollTimeout, advanceTimers, isPlaying>>
    /\ UNCHANGED <<lockVars, storeVars, pageVars, netVars, extVars>>

\* a slip in the comparison: a swipe of exactly the threshold counts
handleTouchEnd_inclusive(touchEndY) ==
    LET diff == touchStartY - touchEndY IN
    /\ IF Abs(diff) >= SwipeThreshold
       THEN IF diff > 0 /\ currentIndex < NumEpisodes - 1
            THEN OnIndexChange(currentIndex + 1)
            ELSE IF diff < 0 /\ currentIndex > 0
                 THEN OnIndexChange(currentIndex - 1)
                 ELSE UNCHANGED <<currentIndex, scrollTimeout>>
       ELSE UNCHANGED <<currentIndex, scrollTimeout>>
    /\ last' = Last("handleTouchEnd", NULL, diff)
    /\ UNCHANGED <<touchStartY, scrollTop, advanceTimers, isPlaying>>
    /\ UNCHANGED <<lockVars, storeVars, pageVars, netVars, extVars>>

handleTouchEnd(touchEndY) ==
    LET diff == touchStartY - touchEndY IN
    /\ IF Abs(diff) > SwipeThreshold
       THEN IF diff > 0 /\ currentIndex < NumEpisodes - 1
            THEN OnIndexChange(currentIndex + 1)
            ELSE IF diff < 0 /\ currentIndex > 0
                 THEN OnIndexChange(currentIndex - 1)
                 ELSE UNCHANGED <<currentIndex, scrollTimeout>>
       ELSE UNCHANGED <<currentIndex, scrollTimeout>>
    /\ last' = Last("handleTouchEnd", NULL, diff)
    /\ UNCHANGED <<touchStartY, scrollTop, advanceTimers, isPlaying>>
    /\ UNCHANGED <<lockVars, storeVars, pageVars, netVars, extVars>>

\* a slip in the bound: length instead of length - 1
handleNext_offByOne ==
    /\ IF currentIndex < NumEpisodes
       THEN OnIndexChange(currentIndex + 1)
       ELSE UNCHANGED <<currentIndex, scrollTimeout>>
    /\ last' = Last("handleNext", NULL, currentIndex)
    /\ UNCHANGED <<touchStartY, scrollTop, advanceTimers, isPlaying>>
    /\ UNCHANGED <<lockVars, storeVars, pageVars, netVars, extVars>>

handleNext ==
    /\ IF currentIndex < NumEpisodes - 1
       THEN OnIndexChange(currentIndex + 1)
       ELSE UNCHANGED <<currentIndex, scrollTimeout>>
    /\ last' = Last("handleNext", NULL, currentIndex)
    /\ UNCHANGED <<touchStartY, scrollTop, advanceTimers, isPlaying>>
    /\ UNCHANGED <<lockVars, storeVars, pageVars, netVars, extVars>>

handlePrevious ==
    /\ IF currentIndex > 0
       THEN OnIndexChange(currentIndex - 1)
       ELSE UNCHANGED <<currentIndex, scrollTimeout>>
    /\ last' = Last("handlePrevious", NULL, currentIndex)
    /\ UNCHANGED <<touchStartY, scrollTop, advanceTimers, isPlaying>>
    /\ UNCHANGED <<lockVars, storeVars, pageVars, netVars, extVars>>

\* a slip that adopts the scrolled-to slide at once, without the timer
handleScroll_immediate(y) ==
    /\ scrollTop' = y
    /\ scrollTimeout' = FALSE
    /\ currentIndex' =
         IF RoundDiv(y, innerHeight) \in Indices
         THEN RoundDiv(y, innerHeight) ELSE currentIndex
    /\ last' = Last("handleScroll", NULL, y)
    /\ UNCHANGED <<touchStartY, advanceTimers, isPlaying>>
    /\ UNCHANGED <<lockVars, storeVars, pageVars, netVars, extVars>>

\* a scroll event: the pending timer is cleared and a new one is armed
handleScroll(y) ==
    /\ scrollTop' = y
    /\ scrollTimeout' = TRUE
    /\ last' = Last("handleScroll", NULL, y)
    /\ UNCHANGED <<currentIndex, touchStartY, advanceTimers, isPlaying>>
    /\ UNCHANGED <<lockVars, storeVars, pageVars, netVars, extVars>>

\* the debounce timer fires 150 ms after the last scroll event
scrollSettle ==
    /\ scrollTimeout
    /\ LET newIndex == RoundDiv(scrollTop, innerHeight) IN
       currentIndex' =
           IF newIndex # currentIndex /\ newIndex >= 0 /\ newIndex < NumEpisodes
           THEN newIndex ELSE currentIndex
    /\ scrollTimeout' = FALSE
    /\ last' = Last("scrollSettle", NULL, currentIndex)
    /\ UNCHANGED <<touchStartY, scrollTop, advanceTimers, isPlaying>>
    /\ UNCHANGED <<lockVars, storeVars, pageVars, netVars, extVars>>

setPlaying(b) ==
    /\ isPlaying' = b
    /\ last' = Last("setPlaying", NULL, 0)
    /\ UNCHANGED <<currentIndex, touchStartY, scrollTop, scrollTimeout, advanceTimers>>
    /\ UNCHANGED <<lockVars, storeVars, pageVars, netVars, extVars>>

\* a slip that schedules the advance but leaves the shared flag alone
handleEnded_keepsPlaying ==
    /\ TimerCount < MaxTimers
    /\ advanceTimers' = [advanceTimers EXCEPT ![currentIndex] = @ + 1]
    /\ last' = Last("handleEnded", NULL, currentIndex)
    /\ UNCHANGED <<currentIndex, touchStartY, scrollTop, scrollTimeout, isPlaying>>
    /\ UNCHANGED <<lockVars, storeVars, pageVars, netVars, extVars>>

\* the video's ended event: pause and schedule onNext, captured from the
\* render that registered the listener
handleEnded ==
    /\ TimerCount < MaxTimers
    /\ isPlaying' = FALSE
    /\ advanceTimers' = [advanceTimers EXCEPT ![currentIndex] = @ + 1]
    /\ last' = Last("handleEnded", NULL, currentIndex)
    /\ UNCHANGED <<currentIndex, touchStartY, scrollTop, scrollTimeout>>
    /\ UNCHANGED <<lockVars, storeVars, pageVars, netVars, extVars>>

\* the 1 s auto-advance timer fires and runs the captured handleNext
autoAdvance(captured) ==
    /\ advanceTimers[captured] > 0
    /\ advanceTimers' = [advanceTimers EXCEPT ![captured] = @ - 1]
    /\ IF captured < NumEpisodes - 1
       THEN OnIndexChange(captured + 1)
       ELSE UNCHANGED <<currentIndex, scrollTimeout>>
    /\ last' = Last("autoAdvance", NULL, captured)
    /\ UNCHANGED <<touchStartY, scrollTop, isPlaying>>
    /\ UNCHANGED <<lockVars, storeVars, pageVars, netVars, extVars>>

InitNav ==
    /\ NavIdle /\ LockIdle /\ StoreIdle /\ PageIdle /\ NetIdle /\ ExtIdle
    /\ last = Last("init", NULL, 0)

NextNav ==
    \/ \E y \in TouchYs : handleTouchStart(y)
    \/ \E y \in TouchYs : handleTouchEnd(y)
    \/ handleNext
    \/ handlePrevious
    \/ \E y \in ScrollTops : handleScroll(y)
    \/ scrollSettle
    \/ \E b \in BOOLEAN : setPlaying(b)
    \/ handleEnded
    \/ \E c \in Indices : autoAdvance(c)

SpecNav == InitNav /\ [][NextNav]_vars

\* ------------------------------- VideoPlayer: the slides' video elements
PlayerRevisions == {"video-player", "part_003"}

\* the play/pause effect of a slide re-runs when one of its dependencies,
\* isPlaying or isActive, differs from the previous render
EffectRuns(i, idx, playing) ==
    playing # isPlaying \/ (i = idx) # (i = currentIndex)

\* video-player.tsx: the effect returns early for a slide that is not
\* active; on an active slide it plays or pauses the element (played says
\* whether play(), retried muted after a rejection, got the video running)
autoPlayEffect(i, idx, playing, played) ==
    IF ~videoMounted[i] \/ i # idx THEN videoPaused[i]
    ELSE IF playing
         THEN (IF played THEN FALSE ELSE videoPaused[i])
         ELSE TRUE

\* part_003: the effect plays only when isPlaying and isActive, and pauses
\* the element otherwise; a rejected play() calls setPlaying(false), whose
\* re-run pauses the element
playPauseEffect(i, idx, playing, played) ==
    IF ~videoMounted[i] THEN videoPaused[i]
    ELSE IF playing /\ i = idx
         THEN (IF played THEN FALSE ELSE TRUE)
         ELSE TRUE

\* part_003 only: play() was called on the active element and rejected
PlayRejected(idx, playing, played) ==
    /\ playerRevision = "part_003"
    /\ videoMounted[idx] /\ playing /\ ~played
    /\ EffectRuns(idx, idx, playing)

\* the render with index idx and flag playing, followed by the effects of
\* every slide whose dependencies changed
RunEffects(idx, playing, played) ==
    /\ isPlaying' = IF PlayRejected(idx, playing, played) THEN FALSE ELSE playing
    /\ videoPaused' =
         [i \in Indices |->
            IF PlayRejected(idx, playing, played)
            THEN (IF videoMounted[i] THEN TRUE ELSE videoPaused[i])
            ELSE IF ~EffectRuns(i, idx, playing) THEN videoPaused[i]
            ELSE IF playerRevision = "part_003"
                 THEN playPauseEffect(i, idx, playing, played)
                 ELSE autoPlayEffect(i, idx, playing, played)]

\* the playback URL arrived for an unlocked slide: its <video> is rendered,
\* paused; no dependency of the play/pause effect changed
videoMount(i) ==
    /\ ~videoMounted[i]
    /\ videoMounted' = [videoMounted EXCEPT ![i] = TRUE]
    /\ videoPaused' = [videoPaused EXCEPT ![i] = TRUE]
    /\ last' = Last("videoMount", NULL, i)
    /\ UNCHANGED <<currentIndex, isPlaying, playerRevision>>
    /\ UNCHANGED <<touchStartY, scrollTop, scrollTimeout, advanceTimers>>
    /\ UNCHANGED <<lockVars, storeVars, pageVars, netVars, playerVars, buyVars,
                 authVars>>

\* the slide became locked again: its <video> is no longer rendered
videoUnmount(i) ==
    /\ videoMounted[i]
    /\ videoMounted' = [videoMounted EXCEPT ![i] = FALSE]
    /\ videoPaused' = [videoPaused EXCEPT ![i] = TRUE]
    /\ last' = Last("videoUnmount", NULL, i)
    /\ UNCHANGED <<currentIndex, isPlaying, playerRevision>>
    /\ UNCHANGED <<touchStartY, scrollTop, scrollTimeout, advanceTimers>>
    /\ UNCHANGED <<lockVars, storeVars, pageVars, netVars, playerVars, buyVars,
                 authVars>>

\* the current index moves (button, swipe, scroll or auto-advance)
Stage_onIndexChange(j, played) ==
    /\ j # currentIndex
    /\ currentIndex' = j
    /\ RunEffects(j, isPlaying, played)
    /\ last' = Last("onIndexChange", NULL, currentIndex)
    /\ UNCHANGED <<videoMounted, playerRevision>>
    /\ UNCHANGED <<touchStartY, scrollTop, scrollTimeout, advanceTimers>>
    /\ UNCHANGED <<lockVars, storeVars, pageVars, netVars, playerVars, buyVars,
                 authVars>>

\* the shared flag is written (togglePlay, or a play / pause / ended event)
Stage_setPlaying(b, played) ==
    /\ RunEffects(currentIndex, b, played)
    /\ last' = Last("setPlaying", NULL, currentIndex)
    /\ UNCHANGED <<currentIndex, videoMounted, playerRevision>>
    /\ UNCHANGED <<touchStartY, scrollTop, scrollTimeout, advanceTimers>>
    /\ UNCHANGED <<lockVars, storeVars, pageVars, netVars, playerVars, buyVars,
                 authVars>>

InitStage ==
    /\ playerRevision \in PlayerRevisions
    /\ videoMounted = [i \in Indices |-> FALSE]
    /\ videoPaused = [i \in Indices |-> TRUE]
    /\ NavIdle /\ LockIdle /\ StoreIdle /\ PageIdle /\ NetIdle
    /\ PlayerIdle /\ BuyIdle /\ AuthIdle
    /\ last = Last("init", NULL, 0)

NextStage ==
    \/ \E i \in Indices : videoMount(i)
    \/ \E i \in Indices : videoUnmount(i)
    \/ \E j \in Indices, played \in BOOLEAN : Stage_onIndexChange(j, played)
    \/ \E b \in BOOLEAN, played \in BOOLEAN : Stage_setPlaying(b, played)

SpecStage == InitStage /\ [][NextStage]_vars

\* --------------------------- VideoPlayer: playback URL fetch with retry
PlayerEpisodes == {IdPool[1], IdPool[2]}
\* playbackUserId = user?.userId ?? 'public'
PlayerUsers == {"public", "viewer-1"}

\* what the server can answer to POST /playback: 200, or a failure status
\* whose JSON body may carry a message
Statuses == {200, 401, 500}
NoBody == "no message"
Bodies == {NoBody, "Unauthorized", "Episode 401 not found"}

\* ApiClient.request: errorData.message || `API Error: ${status} ...`
ErrorMessage(status, body) ==
    IF body # NoBody THEN body
    ELSE IF status = 401 THEN "API Error: 401 Unauthorized"
         ELSE "API Error: 500 Internal Server Error"

\* err.message?.includes('401')
Includes401(message) ==
    message \in {"API Error: 401 Unauthorized", "Episode 401 not found"}

\* the signed URL the backend returns for an episode and a viewer
PlaybackUrl(ep, viewer) == [ep |-> ep, user |-> viewer]

\* chains is the bag of fetch chains under way: fetchWithRetry calls whose
\* request is in flight or whose retry timer is armed
Chain(phase, ep, viewer, retries) ==
    [phase |-> phase, ep |-> ep, user |-> viewer, retries |-> retries,
     sent |-> FetchRetries + 1 - retries]
\* every chain a player can have under way
ChainsInRequest ==
    {Chain("request", ep, u, r) :
        ep \in PlayerEpisodes, u \in PlayerUsers, r \in 0..FetchRetries}
ChainsOnTimer ==
    {Chain("timer", ep, u, r) :
        ep \in PlayerEpisodes, u \in PlayerUsers, r \in 1..FetchRetries}
Add(ch) == chains (+) SetToBag({ch})
Remove(ch) == chains (-) SetToBag({ch})
Replace(ch, by) == (chains (-) SetToBag({ch})) (+) SetToBag({by})
Requests == {ch \in BagToSet(chains) : ch.phase = "request"}
Timers == {ch \in BagToSet(chains) : ch.phase = "timer"}

\* fetchWithRetry starting without setError(null)
FetchEffect_keepsError(ep, viewer, locked) ==
    IF locked
    THEN UNCHANGED <<chains, playerIsLoading, playerError, chainsStarted>>
    ELSE /\ BagCardinality(chains) < MaxChains
         /\ chains' = Add(Chain("request", ep, viewer, FetchRetries))
         /\ playerIsLoading' = TRUE
         /\ playerError' = playerError
         /\ chainsStarted' = IF chainsStarted < 2 THEN chainsStarted + 1 ELSE 2

\* the fetch effect: on a render whose episode id, viewer id or lock state
\* changed, an unlocked player calls fetchWithRetry() with the default
\* retries = 3, which sets isLoading, clears error and sends the request
FetchEffect(ep, viewer, locked) ==
    IF locked
    THEN UNCHANGED <<chains, playerIsLoading, playerError, chainsStarted>>
    ELSE /\ BagCardinality(chains) < MaxChains
         /\ chains' = Add(Chain("request", ep, viewer, FetchRetries))
         /\ playerIsLoading' = TRUE
         /\ playerError' = NULL
         /\ chainsStarted' = IF chainsStarted < 2 THEN chainsStarted + 1 ELSE 2

VideoPlayer_mount(ep, viewer, locked) ==
    /\ ~plMounted
    /\ plMounted' = TRUE
    /\ plEpisodeId' = ep /\ plUserId' = viewer /\ plIsLocked' = locked
    /\ FetchEffect(ep, viewer, locked)
    /\ last' = Last("mount", NULL, 0)
    /\ UNCHANGED <<videoUrl, isPlaying>>
    /\ UNCHANGED <<currentIndex, touchStartY, scrollTop, scrollTimeout, advanceTimers>>
    /\ UNCHANGED <<lockVars, storeVars, pageVars, netVars, stageVars, buyVars,
                 authVars>>

\* the parent re-renders the player with a different episode, viewer or
\* lock state; the viewer id changes when the guest signs in, the episode
\* when the player is handed its next episode, the lock state both ways
\* (unlock, and rollback of a rejected optimistic unlock)
VideoPlayer_rerender(ep, viewer, locked) ==
    /\ plMounted
    /\ <<ep, viewer, locked>> # <<plEpisodeId, plUserId, plIsLocked>>
    /\ plUserId # "public" => viewer = plUserId
    /\ plEpisodeId # IdPool[1] => ep = plEpisodeId
    /\ plEpisodeId' = ep /\ plUserId' = viewer /\ plIsLocked' = locked
    /\ FetchEffect(ep, viewer, locked)
    /\ last' = Last("rerender", NULL, 0)
    /\ UNCHANGED <<plMounted, videoUrl, isPlaying>>
    /\ UNCHANGED <<currentIndex, touchStartY, scrollTop, scrollTimeout, advanceTimers>>
    /\ UNCHANGED <<lockVars, storeVars, pageVars, netVars, stageVars, buyVars,
                 authVars>>

\* a slip in the catch branch: the error is recorded but the loading flag
\* is left set
getPlaybackUrl_respond_staysLoading(ch, status, body) ==
    /\ ch \in Requests
    /\ status = 200 => body = NoBody
    /\ IF status = 200
       THEN /\ videoUrl' = PlaybackUrl(ch.ep, ch.user)
            /\ playerIsLoading' = FALSE
            /\ chains' = Remove(ch)
            /\ UNCHANGED playerError
       ELSE IF Includes401(ErrorMessage(status, body)) /\ ch.retries > 0
            THEN /\ chains' = Replace(ch, [ch EXCEPT !.phase = "timer"])
                 /\ UNCHANGED <<videoUrl, playerIsLoading, playerError>>
            ELSE /\ playerError' = ErrorMessage(status, body)
                 /\ chains' = Remove(ch)
                 /\ UNCHANGED <<videoUrl, playerIsLoading>>
    /\ last' = Last("respond", NULL, status)
    /\ UNCHANGED <<plMounted, plEpisodeId, plUserId, plIsLocked, isPlaying,
                   chainsStarted>>
    /\ UNCHANGED <<currentIndex, touchStartY, scrollTop, scrollTimeout, advanceTimers>>
    /\ UNCHANGED <<lockVars, storeVars, pageVars, netVars, stageVars, buyVars,
                 authVars>>

\* the request of chain ch returns: the try branch on 200, the catch
\* branch on a failure
getPlaybackUrl_respond(ch, status, body) ==
    /\ ch \in Requests
    /\ status = 200 => body = NoBody
    /\ IF status = 200
       THEN /\ videoUrl' = PlaybackUrl(ch.ep, ch.user)
            /\ playerIsLoading' = FALSE
            /\ chains' = Remove(ch)
            /\ UNCHANGED playerError
       ELSE IF Includes401(ErrorMessage(status, body)) /\ ch.retries > 0
            THEN /\ chains' = Replace(ch, [ch EXCEPT !.phase = "timer"])
                 /\ UNCHANGED <<videoUrl, playerIsLoading, playerError>>
            ELSE /\ playerError' = ErrorMessage(status, body)
                 /\ playerIsLoading' = FALSE
                 /\ chains' = Remove(ch)
                 /\ UNCHANGED videoUrl
    /\ last' = Last("respond", NULL, status)
    /\ UNCHANGED <<plMounted, plEpisodeId, plUserId, plIsLocked, isPlaying,
                   chainsStarted>>
    /\ UNCHANGED <<currentIndex, touchStartY, scrollTop, scrollTimeout, advanceTimers>>
    /\ UNCHANGED <<lockVars, storeVars, pageVars, netVars, stageVars, buyVars,
                 authVars>>

\* the 500 ms timer of chain ch fires: fetchWithRetry(retries - 1)
retryTimer(ch) ==
    /\ ch \in Timers
    /\ chains' = Replace(ch, Chain("request", ch.ep, ch.user, ch.retries - 1))
    /\ playerIsLoading' = TRUE
    /\ playerError' = NULL
    /\ last' = Last("retryTimer", NULL, 0)
    /\ UNCHANGED <<plMounted, plEpisodeId, plUserId, plIsLocked, videoUrl,
                   isPlaying, chainsStarted>>
    /\ UNCHANGED <<currentIndex, touchStartY, scrollTop, scrollTimeout, advanceTimers>>
    /\ UNCHANGED <<lockVars, storeVars, pageVars, netVars, stageVars, buyVars,
                 authVars>>

\* a tap on the slide; last.n = 1 records that onUnlock was invoked, for
\* the episode in last.ep
togglePlay ==
    /\ plMounted
    /\ IF plIsLocked
       THEN /\ last' = Last("togglePlay", plEpisodeId, 1)
            /\ UNCHANGED isPlaying
       ELSE /\ isPlaying' = ~isPlaying
            /\ last' = Last("togglePlay", NULL, 0)
    /\ UNCHANGED playerVars
    /\ UNCHANGED <<currentIndex, touchStartY, scrollTop, scrollTimeout, advanceTimers>>
    /\ UNCHANGED <<lockVars, storeVars, pageVars, netVars, stageVars, buyVars,
                 authVars>>

\* a click on the call-to-action of the locked overlay: onClick={onUnlock}
ctaClick ==
    /\ plMounted /\ plIsLocked
    /\ last' = Last("ctaClick", plEpisodeId, 1)
    /\ UNCHANGED <<playerVars, isPlaying>>
    /\ UNCHANGED <<currentIndex, touchStartY, scrollTop, scrollTimeout, advanceTimers>>
    /\ UNCHANGED <<lockVars, storeVars, pageVars, netVars, stageVars, buyVars,
                 authVars>>

InitPlayer ==
    /\ PlayerIdle /\ StageIdle /\ BuyIdle /\ AuthIdle
    /\ NavIdle /\ LockIdle /\ StoreIdle /\ PageIdle /\ NetIdle
    /\ last = Last("init", NULL, 0)

NextPlayer ==
    \/ \E ep \in PlayerEpisodes, u \in PlayerUsers, l \in BOOLEAN :
          VideoPlayer_mount(ep, u, l)
    \/ \E ep \in PlayerEpisodes, u \in PlayerUsers, l \in BOOLEAN :
          VideoPlayer_rerender(ep, u, l)
    \/ \E ch \in ChainsInRequest, st \in Statuses, b \in Bodies :
          getPlaybackUrl_respond(ch, st, b)
    \/ \E ch \in ChainsOnTimer : retryTimer(ch)
    \/ togglePlay
    \/ ctaClick

SpecPlayer == InitPlayer /\ [][NextPlayer]_vars

\* the fetch chains alone: taps change neither props nor chains
NextFetch ==
    \/ \E ep \in PlayerEpisodes, u \in PlayerUsers, l \in BOOLEAN :
          VideoPlayer_mount(ep, u, l)
    \/ \E ep \in PlayerEpisodes, u \in PlayerUsers, l \in BOOLEAN :
          VideoPlayer_rerender(ep, u, l)
    \/ \E ch \in ChainsInRequest, st \in Statuses, b \in Bodies :
          getPlaybackUrl_respond(ch, st, b)
    \/ \E ch \in ChainsOnTimer : retryTimer(ch)

SpecFetch == InitPlayer /\ [][NextFetch]_vars

\* a request in flight eventually returns, and an armed timer fires
FetchFairness ==
    /\ WF_vars(\E ch \in ChainsInRequest, st \in Statuses, b \in Bodies :
                   getPlaybackUrl_respond(ch, st, b))
    /\ WF_vars(\E ch \in ChainsOnTimer : retryTimer(ch))

SpecFetchFair == SpecFetch /\ FetchFairness

\* ------------------------------------ BuyCoinsModal: wallet purchase
\* what a rejected step throws: an Error with a message, or another value
Thrown == {"Error", "other"}
ServerBalances == {5, 10}

\* e instanceof Error ? e.message : 'Failed to purchase coins'
CaughtMessage(thrown, message) ==
    IF thrown = "Error" THEN message ELSE "Failed to purchase coins"

\* catch, then finally: the message is shown and the loading flag cleared
BuyFails(event, message) ==
    /\ buyError' = message
    /\ buyIsLoading' = FALSE
    /\ buyPc' = "idle"
    /\ buyLog' = Append(buyLog, event)
    /\ UNCHANGED <<purchasedCalls, purchasedBalance>>

\* the page opens the modal
BuyCoinsModal_open ==
    /\ ~modalOpen
    /\ modalOpen' = TRUE
    /\ last' = Last("open", NULL, 0)
    /\ UNCHANGED <<walletConnected, buyIsLoading, buyError, buyPc, buyLog,
                   purchasedCalls, purchasedBalance>>
    /\ UNCHANGED <<lockVars, navVars, storeVars, pageVars, netVars,
                   stageVars, playerVars, authVars>>

\* a close handler that calls onClose() whatever the loading flag
BuyCoinsModal_close_always ==
    /\ modalOpen
    /\ modalOpen' = FALSE
    /\ last' = Last("close", NULL, 0)
    /\ UNCHANGED <<walletConnected, buyIsLoading, buyError, buyPc, buyLog,
                   purchasedCalls, purchasedBalance>>
    /\ UNCHANGED <<lockVars, navVars, storeVars, pageVars, netVars,
                   stageVars, playerVars, authVars>>

\* backdrop or Close button: !isLoading && onClose()
BuyCoinsModal_close ==
    /\ modalOpen
    /\ modalOpen' = IF buyIsLoading THEN modalOpen ELSE FALSE
    /\ last' = Last("close", NULL, 0)
    /\ UNCHANGED <<walletConnected, buyIsLoading, buyError, buyPc, buyLog,
                   purchasedCalls, purchasedBalance>>
    /\ UNCHANGED <<lockVars, navVars, storeVars, pageVars, netVars,
                   stageVars, playerVars, authVars>>

\* the wallet adapter connects or disconnects: connected and publicKey
walletChange(b) ==
    /\ walletConnected # b
    /\ walletConnected' = b
    /\ last' = Last("walletChange", NULL, 0)
    /\ UNCHANGED <<modalOpen, buyIsLoading, buyError, buyPc, buyLog,
                   purchasedCalls, purchasedBalance>>
    /\ UNCHANGED <<lockVars, navVars, storeVars, pageVars, netVars,
                   stageVars, playerVars, authVars>>

\* the buy button (disabled unless canBuy): the flow starts by asking the
\* server for a payment intent
buy ==
    /\ modalOpen
    /\ walletConnected /\ ~buyIsLoading
    /\ purchasedCalls < MaxPurchases
    /\ buyIsLoading' = TRUE
    /\ buyError' = NULL
    /\ buyPc' = "createIntent"
    /\ buyLog' = <<"createIntent">>
    /\ last' = Last("buy", NULL, 0)
    /\ UNCHANGED <<walletConnected, modalOpen, purchasedCalls, purchasedBalance>>
    /\ UNCHANGED <<lockVars, navVars, storeVars, pageVars, netVars,
                   stageVars, playerVars, authVars>>

\* createSolanaTopUpIntent returns; the transaction is built and submitted
createIntent_returns(ok, thrown) ==
    /\ buyPc = "createIntent"
    /\ IF ok
       THEN /\ buyPc' = "sendTransaction"
            /\ buyLog' = Append(buyLog, "sendTransaction")
            /\ UNCHANGED <<buyIsLoading, buyError, purchasedCalls, purchasedBalance>>
       ELSE BuyFails("intent rejected", CaughtMessage(thrown, "intent error"))
    /\ last' = Last("createIntent_returns", NULL, IF ok THEN 1 ELSE 0)
    /\ UNCHANGED <<walletConnected, modalOpen>>
    /\ UNCHANGED <<lockVars, navVars, storeVars, pageVars, netVars,
                   stageVars, playerVars, authVars>>

\* sendTransaction returns the signature; confirmTransaction is awaited
sendTransaction_returns(ok, thrown) ==
    /\ buyPc = "sendTransaction"
    /\ IF ok
       THEN /\ buyPc' = "confirmTransaction"
            /\ buyLog' = Append(buyLog, "confirmTransaction")
            /\ UNCHANGED <<buyIsLoading, buyError, purchasedCalls, purchasedBalance>>
       ELSE BuyFails("send rejected", CaughtMessage(thrown, "wallet error"))
    /\ last' = Last("sendTransaction_returns", NULL, IF ok THEN 1 ELSE 0)
    /\ UNCHANGED <<walletConnected, modalOpen>>
    /\ UNCHANGED <<lockVars, navVars, storeVars, pageVars, netVars,
                   stageVars, playerVars, authVars>>

\* a slip that never looks at confirmation.value.err
confirmTransaction_returns_ignoresErr(outcome, thrown) ==
    /\ buyPc = "confirmTransaction"
    /\ outcome \in {"confirmed", "err", "rejected"}
    /\ IF outcome \in {"confirmed", "err"}
       THEN /\ buyPc' = "confirmIntent"
            /\ buyLog' = buyLog \o <<outcome, "confirmIntent">>
            /\ UNCHANGED <<buyIsLoading, buyError, purchasedCalls, purchasedBalance>>
       ELSE BuyFails("rejected", CaughtMessage(thrown, "rpc error"))
    /\ last' = Last("confirmTransaction_returns", NULL,
                    IF outcome = "confirmed" THEN 1 ELSE 0)
    /\ UNCHANGED <<walletConnected, modalOpen>>
    /\ UNCHANGED <<lockVars, navVars, storeVars, pageVars, netVars,
                   stageVars, playerVars, authVars>>

\* confirmTransaction returns: without an error the server is asked to
\* confirm the intent; with confirmation.value.err the flow throws
confirmTransaction_returns(outcome, thrown) ==
    /\ buyPc = "confirmTransaction"
    /\ outcome \in {"confirmed", "err", "rejected"}
    /\ IF outcome = "confirmed"
       THEN /\ buyPc' = "confirmIntent"
            /\ buyLog' = buyLog \o <<"confirmed", "confirmIntent">>
            /\ UNCHANGED <<buyIsLoading, buyError, purchasedCalls, purchasedBalance>>
       ELSE IF outcome = "err"
            THEN BuyFails("err", "Transaction failed")
            ELSE BuyFails("rejected", CaughtMessage(thrown, "rpc error"))
    /\ last' = Last("confirmTransaction_returns", NULL,
                    IF outcome = "confirmed" THEN 1 ELSE 0)
    /\ UNCHANGED <<walletConnected, modalOpen>>
    /\ UNCHANGED <<lockVars, navVars, storeVars, pageVars, netVars,
                   stageVars, playerVars, authVars>>

\* confirmSolanaTopUpIntent returns: on success onPurchased(res.balance),
\* then finally clears the loading flag
confirmIntent_returns(outcome, b, thrown) ==
    /\ buyPc = "confirmIntent"
    /\ outcome \in {"success", "not confirmed", "rejected"}
    /\ IF outcome = "success"
       THEN /\ purchasedCalls' = purchasedCalls + 1
            /\ purchasedBalance' = b
            /\ buyIsLoading' = FALSE
            /\ buyPc' = "idle"
            /\ buyLog' = buyLog \o <<"success", "onPurchased">>
            /\ UNCHANGED buyError
       ELSE IF outcome = "not confirmed"
            THEN BuyFails("not confirmed", "Payment not confirmed")
            ELSE BuyFails("rejected", CaughtMessage(thrown, "server error"))
    /\ last' = Last("confirmIntent_returns", NULL,
                    IF outcome = "success" THEN b ELSE 0)
    /\ UNCHANGED <<walletConnected, modalOpen>>
    /\ UNCHANGED <<lockVars, navVars, storeVars, pageVars, netVars,
                   stageVars, playerVars, authVars>>

InitBuy ==
    /\ BuyIdle
    /\ NavIdle /\ LockIdle /\ StoreIdle /\ PageIdle /\ NetIdle
    /\ StageIdle /\ PlayerIdle /\ AuthIdle
    /\ last = Last("init", NULL, 0)

NextBuy ==
    \/ BuyCoinsModal_open
    \/ BuyCoinsModal_close
    \/ \E b \in BOOLEAN : walletChange(b)
    \/ buy
    \/ \E ok \in BOOLEAN, t \in Thrown : createIntent_returns(ok, t)
    \/ \E ok \in BOOLEAN, t \in Thrown : sendTransaction_returns(ok, t)
    \/ \E o \in {"confirmed", "err", "rejected"}, t \in Thrown :
          confirmTransaction_returns(o, t)
    \/ \E o \in {"success", "not confirmed", "rejected"},
          b \in ServerBalances, t \in Thrown :
          confirmIntent_returns(o, b, t)

SpecBuy == InitBuy /\ [][NextBuy]_vars

\* ------------------------------------ pages: FeedPage and StoryClient
\* story?.freeEpisodeCount ?? 1: the default, or the count the story carries
FeedFreeCounts == {DefaultFreeEpisodeCount, DefaultFreeEpisodeCount + 1}
BalanceValues == {0, 3, 5, 10}
UnlockCosts == {Absent, 5}
TokenCosts == {Absent, 3}

\* episodes.find((e) => e.episodeId === episodeId)
EpisodeById(id) ==
    CHOOSE e \in {episodes[i] : i \in 1..NumEpisodes} : e.episodeId = id

\* the unlocked ids handed to FeedScroll by the mounted page
unlockedEpisodeIds ==
    IF route = "/stories" THEN unlockedFlags
    ELSE narrative \cup optimisticUnlocked

IsLocked(id) ==
    checkIsLocked(EpisodeById(id), freeEpisodeCount, unlockedEpisodeIds)

\* episode.unlockCost || 0
FeedCost(ep) == IF ep.unlockCost = Absent THEN 0 ELSE ep.unlockCost
\* episode?.unlockCost ?? episode?.tokenCost ?? 10
StoryCost(ep) ==
    IF ep.unlockCost # Absent THEN ep.unlockCost
    ELSE IF ep.tokenCost # Absent THEN ep.tokenCost
    ELSE DefaultUnlockCost

\* onError of the feed page's mutation with every entry rolled back
FeedRollback_clearAll(id) == {}
\* onError of the feed page's mutation with the rollback forgotten
FeedRollback_keep(id) == optimisticUnlocked
\* onError: next = new Set(prev); next.delete(episodeId)
FeedRollback(id) == optimisticUnlocked \ {id}

\* onMutate replacing the optimistic set instead of extending it
FeedMutate_replace(id) ==
    /\ pendingUnlockEpisodeId' = NULL
    /\ optimisticUnlocked' = {id}
    /\ inflight[id] < MaxInflight
    /\ inflight' = [inflight EXCEPT ![id] = @ + 1]

\* updateBalance dropping the reported amount
updateBalance_ignore(b) == balance
\* useAuthStore.updateBalance: set({ balance })
updateBalance(b) == b

\* unlockMutation.mutate on the feed page: onMutate, then mutationFn
FeedMutate(id) ==
    /\ pendingUnlockEpisodeId' = NULL
    /\ IF user = NULL
       THEN \* mutationFn throws 'Not authenticated'; onError rolls back
            /\ optimisticUnlocked' = (optimisticUnlocked \cup {id}) \ {id}
            /\ inflight' = inflight
       ELSE /\ optimisticUnlocked' = optimisticUnlocked \cup {id}
            /\ inflight[id] < MaxInflight
            /\ inflight' = [inflight EXCEPT ![id] = @ + 1]

\* unlockMutation.mutate on the story page: mutationFn only
StoryMutate(id) ==
    IF user = NULL
    THEN \* mutationFn throws; onError clears the pending marker
         /\ pendingUnlockEpisodeId' = NULL
         /\ inflight' = inflight
    ELSE /\ pendingUnlockEpisodeId' = pendingUnlockEpisodeId
         /\ inflight[id] < MaxInflight
         /\ inflight' = [inflight EXCEPT ![id] = @ + 1]

\* handleUnlock without the session check
FeedPage_handleUnlock_noAuthCheck(id) ==
    /\ route = "/feed"
    /\ IsLocked(id)
    /\ FeedMutate(id)
    /\ route' = route
    /\ last' = Last("handleUnlock", id, 0)
    /\ UNCHANGED <<episodes, freeEpisodeCount, buyModalOpen, narrative,
                   unlockedFlags, serverUnlocked, storeVars>>
    /\ UNCHANGED <<lockVars, navVars, extVars>>

\* handleUnlock reachable from a slide that is already shown unlocked
FeedPage_handleUnlock_anySlide(id) ==
    /\ route = "/feed"
    /\ IF ~isAuthenticated
       THEN /\ route' = "/login"
            /\ UNCHANGED <<optimisticUnlocked, pendingUnlockEpisodeId, inflight>>
       ELSE /\ FeedMutate(id)
            /\ route' = route
    /\ last' = Last("handleUnlock", id, 0)
    /\ UNCHANGED <<episodes, freeEpisodeCount, buyModalOpen, narrative,
                   unlockedFlags, serverUnlocked, storeVars>>
    /\ UNCHANGED <<lockVars, navVars, extVars>>

FeedPage_handleUnlock(id) ==
    /\ route = "/feed"
    /\ IsLocked(id)
    /\ IF ~isAuthenticated
       THEN /\ route' = "/login"
            /\ UNCHANGED <<optimisticUnlocked, pendingUnlockEpisodeId, inflight>>
       ELSE /\ FeedMutate(id)
            /\ route' = route
    /\ last' = Last("handleUnlock", id, 0)
    /\ UNCHANGED <<episodes, freeEpisodeCount, buyModalOpen, narrative,
                   unlockedFlags, serverUnlocked, storeVars>>
    /\ UNCHANGED <<lockVars, navVars, extVars>>

FeedPage_onSuccess(id, newBalance) ==
    /\ route = "/feed"
    /\ inflight[id] > 0
    /\ inflight' = [inflight EXCEPT ![id] = @ - 1]
    /\ serverUnlocked' = serverUnlocked \cup {id}
    /\ balance' = updateBalance(newBalance)
    /\ last' = Last("onSuccess", id, newBalance)
    /\ UNCHANGED <<user, isAuthenticated, pageVars>>
    /\ UNCHANGED <<lockVars, navVars, extVars>>

FeedPage_onError(id, insufficient) ==
    /\ route = "/feed"
    /\ inflight[id] > 0
    /\ inflight' = [inflight EXCEPT ![id] = @ - 1]
    /\ optimisticUnlocked' = FeedRollback(id)
    /\ IF insufficient
       THEN /\ pendingUnlockEpisodeId' = id
            /\ buyModalOpen' = TRUE
       ELSE UNCHANGED <<pendingUnlockEpisodeId, buyModalOpen>>
    /\ last' = Last("onError", id, IF insufficient THEN 1 ELSE 0)
    /\ UNCHANGED <<episodes, freeEpisodeCount, narrative, unlockedFlags,
                   route, serverUnlocked, storeVars>>
    /\ UNCHANGED <<lockVars, navVars, extVars>>

FeedPage_handlePurchaseSuccess ==
    /\ route = "/feed"
    /\ buyModalOpen
    /\ buyModalOpen' = FALSE
    /\ IF pendingUnlockEpisodeId # NULL
       THEN FeedMutate(pendingUnlockEpisodeId)
       ELSE UNCHANGED <<optimisticUnlocked, pendingUnlockEpisodeId, inflight>>
    /\ last' = Last("handlePurchaseSuccess", pendingUnlockEpisodeId, 0)
    /\ UNCHANGED <<episodes, freeEpisodeCount, narrative, unlockedFlags,
                   route, serverUnlocked, storeVars>>
    /\ UNCHANGED <<lockVars, navVars, extVars>>

\* the narrative query resolves (first load, or after invalidation)
refetchNarrative ==
    /\ route = "/feed"
    /\ isAuthenticated
    /\ narrative' = serverUnlocked
    /\ last' = Last("refetchNarrative", NULL, 0)
    /\ UNCHANGED <<episodes, freeEpisodeCount, optimisticUnlocked,
                   buyModalOpen, pendingUnlockEpisodeId, unlockedFlags,
                   route, netVars, storeVars>>
    /\ UNCHANGED <<lockVars, navVars, extVars>>

StoryClient_handleUnlock(id) ==
    /\ route = "/stories"
    /\ IsLocked(id)
    /\ IF ~isAuthenticated
       THEN /\ route' = "/login"
            /\ UNCHANGED <<pendingUnlockEpisodeId, buyModalOpen, inflight>>
       ELSE /\ route' = route
            /\ IF balance < StoryCost(EpisodeById(id))
               THEN /\ pendingUnlockEpisodeId' = id
                    /\ buyModalOpen' = TRUE
                    /\ inflight' = inflight
               ELSE /\ StoryMutate(id)
                    /\ buyModalOpen' = buyModalOpen
    /\ last' = Last("handleUnlock", id, 0)
    /\ UNCHANGED <<episodes, freeEpisodeCount, optimisticUnlocked, narrative,
                   unlockedFlags, serverUnlocked, storeVars>>
    /\ UNCHANGED <<lockVars, navVars, extVars>>

\* newBalance = Absent models a response without a numeric newBalance
StoryClient_onSuccess(id, newBalance) ==
    /\ route = "/stories"
    /\ inflight[id] > 0
    /\ inflight' = [inflight EXCEPT ![id] = @ - 1]
    /\ serverUnlocked' = serverUnlocked \cup {id}
    /\ balance' = IF newBalance # Absent THEN updateBalance(newBalance) ELSE balance
    /\ pendingUnlockEpisodeId' = NULL
    /\ last' = Last("onSuccess", id, newBalance)
    /\ UNCHANGED <<user, isAuthenticated, episodes, freeEpisodeCount,
                   optimisticUnlocked, buyModalOpen, narrative,
                   unlockedFlags, route>>
    /\ UNCHANGED <<lockVars, navVars, extVars>>

StoryClient_onError(id) ==
    /\ route = "/stories"
    /\ inflight[id] > 0
    /\ inflight' = [inflight EXCEPT ![id] = @ - 1]
    /\ pendingUnlockEpisodeId' = NULL
    /\ last' = Last("onError", id, 0)
    /\ UNCHANGED <<episodes, freeEpisodeCount, optimisticUnlocked,
                   buyModalOpen, narrative, unlockedFlags, route,
                   serverUnlocked, storeVars>>
    /\ UNCHANGED <<lockVars, navVars, extVars>>

\* BuyCoinsModal onSuccess on the story page
StoryClient_onPurchaseSuccess ==
    /\ route = "/stories"
    /\ buyModalOpen
    /\ buyModalOpen' = FALSE
    /\ IF pendingUnlockEpisodeId # NULL
       THEN StoryMutate(pendingUnlockEpisodeId)
       ELSE UNCHANGED <<pendingUnlockEpisodeId, inflight>>
    /\ last' = Last("handlePurchaseSuccess", pendingUnlockEpisodeId, 0)
    /\ UNCHANGED <<episodes, freeEpisodeCount, optimisticUnlocked, narrative,
                   unlockedFlags, route, serverUnlocked, storeVars>>
    /\ UNCHANGED <<lockVars, navVars, extVars>>

\* the episodes query resolves with the server's unlocked flags
refetchEpisodes ==
    /\ route = "/stories"
    /\ unlockedFlags' = serverUnlocked
    /\ last' = Last("refetchEpisodes", NULL, 0)
    /\ UNCHANGED <<episodes, freeEpisodeCount, optimisticUnlocked,
                   buyModalOpen, pendingUnlockEpisodeId, narrative,
                   route, netVars, storeVars>>
    /\ UNCHANGED <<lockVars, navVars, extVars>>

\* TokenBalance onBuyCoins (feed) / the "Buy coins" button (story)
openBuyModal ==
    /\ route \in {"/feed", "/stories"}
    /\ isAuthenticated
    /\ buyModalOpen' = TRUE
    /\ last' = Last("openBuyModal", NULL, 0)
    /\ UNCHANGED <<episodes, freeEpisodeCount, optimisticUnlocked,
                   pendingUnlockEpisodeId, narrative, unlockedFlags,
                   route, netVars, storeVars>>
    /\ UNCHANGED <<lockVars, navVars, extVars>>

\* BuyCoinsModal onClose
closeBuyModal ==
    /\ route \in {"/feed", "/stories"}
    /\ buyModalOpen
    /\ buyModalOpen' = FALSE
    /\ last' = Last("closeBuyModal", NULL, 0)
    /\ UNCHANGED <<episodes, freeEpisodeCount, optimisticUnlocked,
                   pendingUnlockEpisodeId, narrative, unlockedFlags,
                   route, netVars, storeVars>>
    /\ UNCHANGED <<lockVars, navVars, extVars>>

\* LoginPage.handleSubmit succeeding: login() stores the session and the
\* fetched balance, then router.push('/feed') mounts a fresh FeedPage
LoginPage_handleSubmit(b, free) ==
    /\ route = "/login"
    /\ user' = "u1"
    /\ isAuthenticated' = TRUE
    /\ balance' = b
    /\ route' = "/feed"
    /\ freeEpisodeCount' = free
    /\ optimisticUnlocked' = {}
    /\ buyModalOpen' = FALSE
    /\ pendingUnlockEpisodeId' = NULL
    /\ last' = Last("login", NULL, b)
    /\ UNCHANGED <<episodes, narrative, unlockedFlags, netVars>>
    /\ UNCHANGED <<lockVars, navVars, extVars>>

Init ==
    /\ LockIdle /\ NavIdle /\ NetIdle /\ ExtIdle
    /\ route \in {"/feed", "/stories"}
    /\ isAuthenticated \in BOOLEAN
    /\ user = IF isAuthenticated THEN "u1" ELSE NULL
    /\ balance \in (IF isAuthenticated THEN BalanceValues ELSE {0})
    /\ episodes \in {EpisodeList(uc, tc) : uc \in UnlockCosts, tc \in TokenCosts}
    /\ freeEpisodeCount \in
           (IF route = "/feed" THEN FeedFreeCounts ELSE {StoryFreeEpisodeCount})
    /\ optimisticUnlocked = {}
    /\ buyModalOpen = FALSE
    /\ pendingUnlockEpisodeId = NULL
    /\ narrative = {}
    /\ unlockedFlags = {}
    /\ last = Last("init", NULL, 0)

Next ==
    \/ \E id \in EpisodeIds : FeedPage_handleUnlock(id)
    \/ \E id \in EpisodeIds, r \in BalanceValues : FeedPage_onSuccess(id, r)
    \/ \E id \in EpisodeIds, i \in BOOLEAN : FeedPage_onError(id, i)
    \/ FeedPage_handlePurchaseSuccess
    \/ refetchNarrative
    \/ \E id \in EpisodeIds : StoryClient_handleUnlock(id)
    \/ \E id \in EpisodeIds, r \in BalanceValues \cup {Absent} :
           StoryClient_onSuccess(id, r)
    \/ \E id \in EpisodeIds : StoryClient_onError(id)
    \/ StoryClient_onPurchaseSuccess
    \/ refetchEpisodes
    \/ openBuyModal
    \/ closeBuyModal
    \/ \E b \in BalanceValues, f \in FeedFreeCounts : LoginPage_handleSubmit(b, f)

Spec == Init /\ [][Next]_vars

\* ------------------------------------ auth store, storage and ApiClient
Tokens == {"jwt-1", "jwt-2"}
UserIds == {"u1", "u2"}
PublicKeys == {"pk1"}
Credentials ==
    {[email |-> "DEMO@drama.app", password |-> "demo123"],
     [email |-> "DEMO@drama.app", password |-> "hunter2"],
     [email |-> "viewer@example.com", password |-> "hunter2"]}
\* messages of the errors thrown by ApiClient.request and by signMessage
Messages == {"Unauthorized", "Invalid credentials"}
\* User objects handed to setToken; a guest session has an empty email
Users ==
    {[userId |-> "u1", email |-> "viewer@example.com"],
     [userId |-> "u2", email |-> ""]}

\* what an awaited auth call yields: an AuthResponse, or a thrown Error
AuthResponses ==
    [userId : UserIds, token : Tokens] \cup [message : Messages]
Ok(res) == "message" \notin DOMAIN res

\* String.prototype.toLowerCase on the strings that occur here
toLowerCase(s) ==
    CASE s = "DEMO@drama.app" -> "demo@drama.app"
      [] s = "Unauthorized" -> "unauthorized"
      [] s = "Invalid credentials" -> "invalid credentials"
      [] OTHER -> s

isDemoCredentials(email, password) ==
    /\ toLowerCase(email) \in {"demo@drama.app", "demo@cliffhanger.gg"}
    /\ password = "demo123"

\* message.toLowerCase().includes('unauthorized')
includesUnauthorized(message) == toLowerCase(message) \in {"unauthorized"}

\* `wallet:${publicKey}`
walletEmail(publicKey) == IF publicKey = "pk1" THEN "wallet:pk1" ELSE NULL

\* ApiClient.request: the Authorization header is set only with a token
request(tok) ==
    IF tok = NULL THEN NoAuthorization
    ELSE [scheme |-> "Bearer", credentials |-> tok]

\* persist middleware: every set() writes partialize(state) to storage
partialize ==
    storage' = [user |-> user', email |-> userEmail', token |-> token',
                balance |-> balance', isAuthenticated |-> isAuthenticated']

\* sessions a previous page load may have left in storage
PersistedSessions ==
    {NoSession}
    \cup {[user |-> u.userId, email |-> u.email, token |-> t, balance |-> b,
           isAuthenticated |-> TRUE] :
             u \in Users, t \in {"jwt-1"}, b \in {0, 5}}

AuthCall(op, phase, email, password) ==
    [op |-> op, phase |-> phase, email |-> email, password |-> password]
AuthCallSet ==
    {AuthCall("login", ph, c.email, c.password) :
        ph \in {"login", "register", "balance"}, c \in Credentials}
    \cup {AuthCall("wallet", ph, walletEmail(pk), NULL) :
        ph \in {"nonce", "sign", "verify", "balance"}, pk \in PublicKeys}
    \cup {AuthCall("fetchBalance", "balance", NULL, NULL)}
Pending(c) == BagIn(c, authCalls)
Settle(c) == authCalls (-) SetToBag({c})
Advance(c, phase) ==
    (authCalls (-) SetToBag({c}))
        (+) SetToBag({AuthCall(c.op, phase, c.email, c.password)})

sessionFrame ==
    <<lockVars, navVars, pageVars, netVars, stageVars, playerVars, buyVars>>

\* page load: the module is evaluated (fresh ApiClient, fresh store), the
\* persisted state is merged in, then the onRehydrateStorage callback runs
onRehydrateStorage_keepsGuest ==
    /\ user' = storage.user
    /\ userEmail' = storage.email
    /\ token' = storage.token
    /\ apiToken' = storage.token
    /\ balance' = storage.balance
    /\ isAuthenticated' = storage.isAuthenticated
    /\ storage' = storage
    /\ authIsLoading' = FALSE
    /\ authError' = NULL
    /\ hasHydrated' = TRUE
    /\ authCalls' = EmptyBag
    /\ authorization' = NoAuthorization
    /\ last' = Last("rehydrate", NULL, 0)
    /\ UNCHANGED sessionFrame

onRehydrateStorage ==
    /\ IF storage.user # NULL /\ storage.email = ""
       THEN \* state.logout()
            /\ apiToken' = NULL
            /\ user' = NULL
            /\ userEmail' = NULL
            /\ token' = NULL
            /\ balance' = 0
            /\ isAuthenticated' = FALSE
            /\ partialize
       ELSE /\ user' = storage.user
            /\ userEmail' = storage.email
            /\ token' = storage.token
            /\ apiToken' = storage.token
            /\ balance' = storage.balance
            /\ isAuthenticated' = storage.isAuthenticated
            /\ storage' = storage
    /\ authIsLoading' = FALSE
    /\ authError' = NULL
    /\ hasHydrated' = TRUE
    /\ authCalls' = EmptyBag
    /\ authorization' = NoAuthorization
    /\ last' = Last("rehydrate", NULL,
                    IF storage.user # NULL /\ storage.email = "" THEN 1 ELSE 0)
    /\ UNCHANGED sessionFrame

\* login: set({ isLoading: true, error: null }); apiClient.login(...)
login(c) ==
    /\ hasHydrated
    /\ BagCardinality(authCalls) < MaxCalls
    /\ authIsLoading' = TRUE
    /\ authError' = NULL
    /\ authorization' = request(apiToken)
    /\ authCalls' =
         authCalls (+) SetToBag({AuthCall("login", "login", c.email, c.password)})
    /\ last' = Last("login", NULL, 0)
    /\ UNCHANGED <<user, userEmail, token, apiToken, balance,
                   isAuthenticated, hasHydrated, storage>>
    /\ UNCHANGED sessionFrame

\* the response of login / register / verifyWalletLogin is stored, then
\* fetchBalance is called
SessionStarts(c, uid, tok) ==
    /\ apiToken' = tok
    /\ user' = uid
    /\ userEmail' = c.email
    /\ token' = tok
    /\ isAuthenticated' = TRUE
    /\ authIsLoading' = FALSE
    /\ authorization' = request(apiToken')
    /\ authCalls' = Advance(c, "balance")
    /\ UNCHANGED <<balance, authError, hasHydrated>>
    /\ partialize

\* catch (error): set({ error: message, isLoading: false }); throw error
AttemptThrows_clearsSession(c, message) ==
    /\ authError' = message
    /\ authIsLoading' = FALSE
    /\ authCalls' = Settle(c)
    /\ user' = NULL
    /\ userEmail' = NULL
    /\ token' = NULL
    /\ isAuthenticated' = FALSE
    /\ UNCHANGED <<apiToken, balance, hasHydrated, authorization>>
    /\ partialize

AttemptThrows(c, message) ==
    /\ authError' = message
    /\ authIsLoading' = FALSE
    /\ authCalls' = Settle(c)
    /\ UNCHANGED <<user, userEmail, token, apiToken, balance,
                   isAuthenticated, hasHydrated, storage, authorization>>

login_returns(c, res) ==
    /\ Pending(c) /\ c.op = "login" /\ c.phase = "login"
    /\ IF Ok(res)
       THEN /\ SessionStarts(c, res.userId, res.token)
            /\ last' = Last("loginOk", NULL, 0)
       ELSE IF isDemoCredentials(c.email, c.password)
                 /\ includesUnauthorized(res.message)
            THEN \* response = await apiClient.register(email, password)
                 /\ authorization' = request(apiToken)
                 /\ authCalls' = Advance(c, "register")
                 /\ last' = Last("register", NULL, 0)
                 /\ UNCHANGED <<user, userEmail, token, apiToken, balance,
                                isAuthenticated, authIsLoading, authError,
                                hasHydrated, storage>>
            ELSE /\ AttemptThrows(c, res.message)
                 /\ last' = Last("loginFailed", NULL, 0)
    /\ UNCHANGED sessionFrame

register_returns(c, res) ==
    /\ Pending(c) /\ c.op = "login" /\ c.phase = "register"
    /\ IF Ok(res)
       THEN /\ SessionStarts(c, res.userId, res.token)
            /\ last' = Last("loginOk", NULL, 0)
       ELSE /\ AttemptThrows(c, res.message)
            /\ last' = Last("loginFailed", NULL, 0)
    /\ UNCHANGED sessionFrame

\* loginWithWallet: set({ isLoading: true, error: null }); nonce request
loginWithWallet(publicKey) ==
    /\ hasHydrated
    /\ BagCardinality(authCalls) < MaxCalls
    /\ authIsLoading' = TRUE
    /\ authError' = NULL
    /\ authorization' = request(apiToken)
    /\ authCalls' =
         authCalls (+) SetToBag({AuthCall("wallet", "nonce",
                                          walletEmail(publicKey), NULL)})
    /\ last' = Last("loginWithWallet", NULL, 0)
    /\ UNCHANGED <<user, userEmail, token, apiToken, balance,
                   isAuthenticated, hasHydrated, storage>>
    /\ UNCHANGED sessionFrame

getWalletLoginNonce_returns(c, res) ==
    /\ Pending(c) /\ c.op = "wallet" /\ c.phase = "nonce"
    /\ IF res = "ok"
       THEN /\ authCalls' = Advance(c, "sign")
            /\ last' = Last("nonce", NULL, 0)
            /\ UNCHANGED <<user, userEmail, token, apiToken, balance,
                           isAuthenticated, authIsLoading, authError,
                           hasHydrated, storage, authorization>>
       ELSE /\ AttemptThrows(c, res)
            /\ last' = Last("walletFailed", NULL, 0)
    /\ UNCHANGED sessionFrame

signMessage_returns(c, res) ==
    /\ Pending(c) /\ c.op = "wallet" /\ c.phase = "sign"
    /\ IF res = "ok"
       THEN \* apiClient.verifyWalletLogin({ publicKey, signature, nonce })
            /\ authorization' = request(apiToken)
            /\ authCalls' = Advance(c, "verify")
            /\ last' = Last("verify", NULL, 0)
            /\ UNCHANGED <<user, userEmail, token, apiToken, balance,
                           isAuthenticated, authIsLoading, authError,
                           hasHydrated, storage>>
       ELSE /\ AttemptThrows(c, res)
            /\ last' = Last("walletFailed", NULL, 0)
    /\ UNCHANGED sessionFrame

verifyWalletLogin_returns(c, res) ==
    /\ Pending(c) /\ c.op = "wallet" /\ c.phase = "verify"
    /\ IF Ok(res)
       THEN /\ SessionStarts(c, res.userId, res.token)
            /\ last' = Last("walletOk", NULL, 0)
       ELSE /\ AttemptThrows(c, res.message)
            /\ last' = Last("walletFailed", NULL, 0)
    /\ UNCHANGED sessionFrame

\* fetchBalance called on its own: apiClient.getBalance()
fetchBalance ==
    /\ hasHydrated
    /\ BagCardinality(authCalls) < MaxCalls
    /\ authorization' = request(apiToken)
    /\ authCalls' =
         authCalls (+) SetToBag({AuthCall("fetchBalance", "balance", NULL, NULL)})
    /\ last' = Last("fetchBalance", NULL, 0)
    /\ UNCHANGED <<user, userEmail, token, apiToken, balance,
                   isAuthenticated, authIsLoading, authError, hasHydrated,
                   storage>>
    /\ UNCHANGED sessionFrame

\* getBalance settles: set({ balance }), or console.error (b = Absent)
getBalance_returns(c, b) ==
    /\ Pending(c) /\ c.phase = "balance"
    /\ authCalls' = Settle(c)
    /\ balance' = IF b # Absent THEN updateBalance(b) ELSE balance
    /\ last' = Last("balance", NULL, 0)
    /\ UNCHANGED <<user, userEmail, token, apiToken, isAuthenticated,
                   authIsLoading, authError, hasHydrated, authorization>>
    /\ partialize
    /\ UNCHANGED sessionFrame

\* logout leaving the ApiClient's token in place
logout_keepsApiToken ==
    /\ hasHydrated
    /\ apiToken' = apiToken
    /\ user' = NULL
    /\ userEmail' = NULL
    /\ token' = NULL
    /\ balance' = 0
    /\ isAuthenticated' = FALSE
    /\ authError' = NULL
    /\ last' = Last("logout", NULL, 0)
    /\ UNCHANGED <<authIsLoading, hasHydrated, authCalls, authorization>>
    /\ partialize
    /\ UNCHANGED sessionFrame

logout ==
    /\ hasHydrated
    /\ apiToken' = NULL
    /\ user' = NULL
    /\ userEmail' = NULL
    /\ token' = NULL
    /\ balance' = 0
    /\ isAuthenticated' = FALSE
    /\ authError' = NULL
    /\ last' = Last("logout", NULL, 0)
    /\ UNCHANGED <<authIsLoading, hasHydrated, authCalls, authorization>>
    /\ partialize
    /\ UNCHANGED sessionFrame

\* setToken storing the session without marking it authenticated
setToken_keepsFlag(tok, u) ==
    /\ hasHydrated
    /\ apiToken' = tok
    /\ token' = tok
    /\ user' = u.userId
    /\ userEmail' = u.email
    /\ isAuthenticated' = isAuthenticated
    /\ last' = Last("setToken", NULL, 0)
    /\ UNCHANGED <<balance, authIsLoading, authError, hasHydrated, authCalls,
                   authorization>>
    /\ partialize
    /\ UNCHANGED sessionFrame

setToken(tok, u) ==
    /\ hasHydrated
    /\ apiToken' = tok
    /\ token' = tok
    /\ user' = u.userId
    /\ userEmail' = u.email
    /\ isAuthenticated' = TRUE
    /\ last' = Last("setToken", NULL, 0)
    /\ UNCHANGED <<balance, authIsLoading, authError, hasHydrated, authCalls,
                   authorization>>
    /\ partialize
    /\ UNCHANGED sessionFrame

Store_updateBalance(b) ==
    /\ hasHydrated
    /\ balance' = updateBalance(b)
    /\ last' = Last("updateBalance", NULL, b)
    /\ UNCHANGED <<user, userEmail, token, apiToken, isAuthenticated,
                   authIsLoading, authError, hasHydrated, authCalls,
                   authorization>>
    /\ partialize
    /\ UNCHANGED sessionFrame

\* any other endpoint called through ApiClient.request
apiRequest ==
    /\ hasHydrated
    /\ authorization' = request(apiToken)
    /\ last' = Last("request", NULL, 0)
    /\ UNCHANGED <<user, userEmail, token, apiToken, balance,
                   isAuthenticated, authIsLoading, authError, hasHydrated,
                   storage, authCalls>>
    /\ UNCHANGED sessionFrame

InitStore ==
    /\ storage \in PersistedSessions
    /\ userEmail = NULL
    /\ token = NULL
    /\ apiToken = NULL
    /\ authIsLoading = FALSE
    /\ authError = NULL
    /\ hasHydrated = FALSE
    /\ authCalls = EmptyBag
    /\ authorization = NoAuthorization
    /\ LockIdle /\ NavIdle /\ StoreIdle /\ PageIdle /\ NetIdle
    /\ StageIdle /\ PlayerIdle /\ BuyIdle
    /\ last = Last("init", NULL, 0)

NextStore ==
    \/ onRehydrateStorage
    \/ \E c \in Credentials : login(c)
    \/ \E c \in AuthCallSet, res \in AuthResponses : login_returns(c, res)
    \/ \E c \in AuthCallSet, res \in AuthResponses : register_returns(c, res)
    \/ \E pk \in PublicKeys : loginWithWallet(pk)
    \/ \E c \in AuthCallSet, res \in {"ok"} \cup Messages :
          getWalletLoginNonce_returns(c, res)
    \/ \E c \in AuthCallSet, res \in {"ok"} \cup Messages :
          signMessage_returns(c, res)
    \/ \E c \in AuthCallSet, res \in AuthResponses :
          verifyWalletLogin_returns(c, res)
    \/ fetchBalance
    \/ \E c \in AuthCallSet, b \in ServerBalances \cup {Absent} :
          getBalance_returns(c, b)
    \/ logout
    \/ \E tok \in Tokens, u \in Users : setToken(tok, u)
    \/ \E b \in ServerBalances : Store_updateBalance(b)
    \/ apiRequest
SpecStore == InitStore /\ [][NextStore]_vars

\* ================================================================ claims
AttemptOps == {"handleUnlock", "handlePurchaseSuccess", "onSuccess", "onError"}
LockedAfter(id) ==
    checkIsLocked(EpisodeById(id), freeEpisodeCount', unlockedEpisodeIds')
PageCost(ep) == IF route = "/stories" THEN StoryCost(ep) ELSE FeedCost(ep)

\* C1: every lock evaluator of the feed reports an episode as locked
\* exactly when its sequence number exceeds the free-episode count and its
\* id is not in the unlocked set.
C1_LockedIffPaidAndNotUnlocked ==
    lkResult.by # "none" =>
        (lkResult.val <=>
            (lkEpisode.sequenceNumber > lkFree
             /\ lkEpisode.episodeId \notin lkUnlocked))

\* C2: an episode whose sequence number is at most the free-episode count
\* is never reported locked, whatever the unlocked set contains.
C2_FreeEpisodeNeverLocked ==
    (lkResult.by # "none" /\ lkEpisode.sequenceNumber <= lkFree)
        => ~lkResult.val

C2_Witness ==
    /\ lkResult.by = "checkIsLocked"
    /\ lkEpisode.sequenceNumber = lkFree
    /\ lkEpisode.episodeId \notin lkUnlocked
    /\ lkUnlocked # {}
    /\ ~lkResult.val

\* C3: the current index always stays within 0..n-1, and a "previous" at
\* index 0 or a "next" at index n-1 leaves it unchanged.
C3_IndexStaysInBounds ==
    /\ [](currentIndex \in Indices)
    /\ [][/\ (last'.op = "handlePrevious" /\ currentIndex = 0)
                => currentIndex' = 0
          /\ (last'.op = "handleNext" /\ currentIndex = NumEpisodes - 1)
                => currentIndex' = NumEpisodes - 1]_vars

C3_Witness ==
    /\ last.op = "handleNext"
    /\ last.n = NumEpisodes - 1
    /\ currentIndex = NumEpisodes - 1

\* C4 (as stated): across every step the effective unlocked set after the
\* step is a superset of the set before it.
C4_EffectiveSetOnlyGrows ==
    [][unlockedEpisodeIds \subseteq unlockedEpisodeIds']_vars

\* C4 (amended): the effective unlocked set only grows, except that the
\* rejection of an unlock of X may remove X itself; every other id stays.
C4_GrowsExceptRejectedEpisode ==
    [][IF last'.op = "onError"
       THEN (unlockedEpisodeIds \ {last'.ep}) \subseteq unlockedEpisodeIds'
       ELSE unlockedEpisodeIds \subseteq unlockedEpisodeIds']_vars

C4_Witness ==
    /\ route = "/feed"
    /\ last.op = "onError"
    /\ last.ep \notin unlockedEpisodeIds
    /\ optimisticUnlocked # {}

\* C5: an unlock attempt for X, its success and its rejection never change
\* the locked status of any other episode Y.
C5_OtherEpisodesUntouched ==
    [][\A y \in EpisodeIds :
          (isAuthenticated /\ last'.op \in AttemptOps /\ last'.ep # y)
              => (IsLocked(y)' <=> IsLocked(y))]_vars

C5_Witness ==
    /\ route = "/feed"
    /\ last.op = "handleUnlock"
    /\ \E y \in optimisticUnlocked : y # last.ep /\ y \notin narrative

\* C6: on the feed page an unlock attempt puts X into the optimistic set
\* while its request is in flight; a rejection removes X again, and an
\* insufficient-funds rejection records X as pending and opens the modal.
C6_OptimisticInsertAndRollback ==
    [][/\ (/\ route = "/feed" /\ isAuthenticated
           /\ last'.op \in {"handleUnlock", "handlePurchaseSuccess"}
           /\ last'.ep # NULL)
          => /\ last'.ep \in optimisticUnlocked'
             /\ inflight'[last'.ep] = inflight[last'.ep] + 1
       /\ (route = "/feed" /\ last'.op = "onError")
          => /\ last'.ep \notin optimisticUnlocked'
             /\ last'.n = 1 =>
                   (pendingUnlockEpisodeId' = last'.ep /\ buyModalOpen')]_vars

C6_Witness ==
    /\ route = "/feed"
    /\ last.op = "onError"
    /\ last.n = 1
    /\ pendingUnlockEpisodeId = last.ep
    /\ buyModalOpen
    /\ last.ep \notin optimisticUnlocked

\* C7: an authenticated unlock with balance below the cost records the
\* episode as pending, opens the purchase modal and sends no unlock
\* request; with balance at least the cost it sends the request and does
\* not open the modal.
C7_BalanceGate ==
    [][(last'.op = "handleUnlock" /\ isAuthenticated) =>
          IF balance < PageCost(EpisodeById(last'.ep))
          THEN /\ pendingUnlockEpisodeId' = last'.ep
               /\ buyModalOpen'
               /\ inflight' = inflight
          ELSE /\ inflight' = [inflight EXCEPT ![last'.ep] = @ + 1]
               /\ buyModalOpen' = buyModalOpen]_vars

C9_UnauthenticatedUnlockRedirects ==
    [][(last'.op = "handleUnlock" /\ ~isAuthenticated) =>
          /\ route' = "/login"
          /\ UNCHANGED <<inflight, optimisticUnlocked,
                         pendingUnlockEpisodeId, balance, buyModalOpen>>]_vars

C9_Witness ==
    /\ last.op = "handleUnlock"
    /\ route = "/login"
    /\ ~isAuthenticated

\* C10: a purchase success with X pending issues exactly one unlock
\* attempt for X and the pending marker is null once the attempt has
\* started; with nothing pending it issues no attempt.
C10_PurchaseSuccessRetriesPending ==
    [][last'.op = "handlePurchaseSuccess" =>
          IF last'.ep # NULL
          THEN /\ inflight' = [inflight EXCEPT ![last'.ep] = @ + 1]
               /\ pendingUnlockEpisodeId' = NULL
          ELSE inflight' = inflight]_vars

\* C11: at most one rendered slide is marked active, and the active slide
\* is the one whose position equals the current index.
C11_SingleActiveSlide ==
    /\ Cardinality({i \in Indices : isActive(i)}) <= 1
    /\ \A i \in Indices : isActive(i) => i = currentIndex
    /\ \E i \in Indices : isActive(i)

\* the feed has been navigated to its third slide, which is the active one
C11_Witness ==
    /\ last.op \in {"handleNext", "handleTouchEnd", "scrollSettle", "autoAdvance"}
    /\ currentIndex = 2
    /\ isActive(2)
    /\ ~isActive(1)

\* C12: only the slide at the current index may be playing; the video of
\* every other slide is paused, whatever the shared isPlaying flag says.
C12_OnlyCurrentSlidePlays ==
    \A i \in Indices : i # currentIndex => videoPaused[i]

\* C13: when the video of the slide at the current index i ends, the
\* shared playing flag becomes false, the index does not move yet and one
\* auto-advance is scheduled; when that 1 s timer fires the index becomes
\* i + 1, unless i is the last index, in which case the timer leaves the
\* index as it is.
C13_EndedPausesThenAdvances ==
    [][/\ last'.op = "handleEnded" =>
            /\ isPlaying' = FALSE
            /\ currentIndex' = currentIndex
            /\ advanceTimers' =
                  [advanceTimers EXCEPT ![currentIndex] = @ + 1]
       /\ last'.op = "autoAdvance" =>
            /\ advanceTimers[last'.n] > 0
            /\ currentIndex' = IF last'.n < NumEpisodes - 1
                               THEN last'.n + 1
                               ELSE currentIndex]_vars

\* the video of slide 1 ended, and the timer has moved the feed from 1 to 2
C13_Witness ==
    /\ last.op = "autoAdvance"
    /\ last.n = 1
    /\ currentIndex = 2
    /\ ~isPlaying

\* C14: on touch-end with d = touchStartY - touchEndY, the index moves by
\* +1 when |d| > 50, d > 0 and the index is not the last, by -1 when
\* |d| > 50, d < 0 and the index is not the first, and is unchanged
\* otherwise (so for |d| = 40 and for |d| = 50 exactly).
C14_SwipeThreshold ==
    [][last'.op = "handleTouchEnd" =>
         LET d == last'.n IN
         /\ (Abs(d) > 50 /\ d > 0 /\ currentIndex < NumEpisodes - 1)
               => currentIndex' = currentIndex + 1
         /\ (Abs(d) > 50 /\ d < 0 /\ currentIndex > 0)
               => currentIndex' = currentIndex - 1
         /\ (Abs(d) > 50 /\ d > 0 /\ currentIndex = NumEpisodes - 1)
               => currentIndex' = currentIndex
         /\ (Abs(d) > 50 /\ d < 0 /\ currentIndex = 0)
               => currentIndex' = currentIndex
         /\ Abs(d) <= 50 => currentIndex' = currentIndex]_vars

\* an upward swipe of 51 px has moved the feed from slide 1 to slide 2
C14_Witness ==
    /\ last.op = "handleTouchEnd"
    /\ last.n = 51
    /\ touchStartY = 51
    /\ currentIndex = 2

\* C15: a scroll event never changes the index itself, it leaves exactly
\* one debounce timer pending; when the timer fires, the index becomes
\* r = round(scrollTop / viewportHeight) if r differs from the index and
\* lies in 0..n-1, and is unchanged otherwise.
C15_ScrollDebounce ==
    [][/\ last'.op = "handleScroll" =>
            /\ currentIndex' = currentIndex
            /\ scrollTimeout'
            /\ scrollTop' = last'.n
       /\ last'.op = "scrollSettle" =>
            /\ scrollTimeout /\ ~scrollTimeout'
            /\ \E r \in (0 - 1)..NumEpisodes :
                 /\ 2 * r * innerHeight <= 2 * scrollTop + innerHeight
                 /\ 2 * scrollTop + innerHeight < 2 * (r + 1) * innerHeight
                 /\ currentIndex' =
                      IF r # currentIndex /\ r >= 0 /\ r <= NumEpisodes - 1
                      THEN r ELSE currentIndex]_vars

\* the timer fired after a scroll to the third slide and moved the index
C15_Witness ==
    /\ last.op = "scrollSettle"
    /\ last.n = 0
    /\ scrollTop = 2 * innerHeight
    /\ currentIndex = 2
    /\ ~scrollTimeout

\* a request leaves the player in this step: a chain enters its request
\* phase, either freshly started or from its retry timer
RequestIssued ==
    \E ch \in BagToSet(chains') :
        /\ ch.phase = "request"
        /\ CopiesIn(ch, chains') > CopiesIn(ch, chains)
Settled ==
    /\ ~playerIsLoading
    /\ videoUrl # NoUrl \/ playerError # NULL

\* C16: a playback-URL request that fails with HTTP 401 is retried (after
\* the 500 ms delay) while the chain has retries left, a chain sends at
\* most 4 requests, a 200 makes the player ready with the returned URL,
\* and a 401 on the last attempt ends the chain in the error state.
C16_Retry401 ==
    /\ [](\A ch \in BagToSet(chains) : ch.sent <= 4)
    /\ [][last'.op = "respond" =>
            \E ch \in Requests :
               /\ last'.n = 401 /\ ch.retries > 0 =>
                     /\ chains' = Replace(ch, [ch EXCEPT !.phase = "timer"])
                     /\ playerError' = playerError
                     /\ playerIsLoading' = playerIsLoading
               /\ last'.n = 401 /\ ch.retries = 0 =>
                     /\ chains' = Remove(ch)
                     /\ playerError' # NULL /\ ~playerIsLoading'
               /\ last'.n = 200 =>
                     /\ chains' = Remove(ch)
                     /\ videoUrl' = PlaybackUrl(ch.ep, ch.user)
                     /\ ~playerIsLoading']_vars

\* C17: a playback-URL request that fails with a status other than 401
\* ends its chain at once in the error state, without a retry, and the
\* step that follows such a failure issues no request unless it is a
\* re-render with another episode id, viewer id or lock state.
C17_OtherFailureIsTerminal ==
    /\ [][(last'.op = "respond" /\ last'.n \notin {200, 401}) =>
            /\ \E ch \in Requests : chains' = Remove(ch)
            /\ playerError' # NULL
            /\ ~playerIsLoading']_vars
    /\ [][(/\ last.op = "respond" /\ last.n \notin {200, 401}
           /\ last'.op # "rerender") => ~RequestIssued]_vars

\* C18: no request is issued by a player that is locked, and a tap on a
\* locked slide or on its call-to-action invokes onUnlock for the slide's
\* episode and leaves the shared isPlaying flag alone.
C18_LockedNeverFetches ==
    [][/\ RequestIssued => ~plIsLocked'
       /\ (last'.op \in {"togglePlay", "ctaClick"} /\ plIsLocked) =>
            /\ last'.n = 1
            /\ last'.ep = plEpisodeId
            /\ isPlaying' = isPlaying]_vars

\* C19: when a player mounts unlocked, or is re-rendered unlocked after
\* having been locked or with another episode id, a fetch chain is started
\* for its episode and viewer; and, since every request returns and every
\* timer fires, a player with a chain under way eventually is no longer
\* loading and has a URL or an error message.
C19_FetchStartsAndSettles ==
    /\ [][(/\ last'.op \in {"mount", "rerender"}
           /\ ~plIsLocked'
           /\ \/ last'.op = "mount"
              \/ plIsLocked
              \/ plEpisodeId' # plEpisodeId)
          => /\ playerIsLoading'
             /\ chains' = chains (+) SetToBag({
                   [phase |-> "request", ep |-> plEpisodeId',
                    user |-> plUserId', retries |-> 3, sent |-> 1]})]_vars
    /\ (chains # EmptyBag) ~> Settled

\* a chain started by unlocking the slide has ended with the URL of the
\* player's episode and viewer
C19_Witness ==
    /\ last.op = "respond" /\ last.n = 200
    /\ plMounted /\ ~plIsLocked
    /\ chains = EmptyBag
    /\ Settled
    /\ videoUrl = PlaybackUrl(plEpisodeId, plUserId)
    /\ plEpisodeId = IdPool[2]

\* the calls and outcomes of a purchase that ends with onPurchased
PurchaseOrder ==
    <<"createIntent", "sendTransaction", "confirmTransaction", "confirmed",
      "confirmIntent", "success", "onPurchased">>
FailureEvents ==
    {"intent rejected", "send rejected", "err", "rejected", "not confirmed"}
IsPrefix(a, b) ==
    /\ Len(a) <= Len(b)
    /\ \A i \in 1..Len(a) : a[i] = b[i]
BuyFailed(log) == Len(log) > 0 /\ log[Len(log)] \in FailureEvents

\* C20: a purchase runs its steps in the order create intent, submit
\* transaction, wait for network confirmation, confirm the intent with the
\* server; onPurchased is invoked, with the balance the server reported,
\* only after the network confirmation carried no error and the server
\* reported success; a step that fails ends the purchase without
\* onPurchased, with an error message set and the loading flag cleared.
C20_PurchaseOrder ==
    /\ [](\/ IsPrefix(buyLog, PurchaseOrder)
          \/ /\ BuyFailed(buyLog)
             /\ IsPrefix(SubSeq(buyLog, 1, Len(buyLog) - 1), PurchaseOrder)
             /\ buyError # NULL
             /\ ~buyIsLoading)
    /\ [][purchasedCalls' # purchasedCalls =>
            /\ purchasedCalls' = purchasedCalls + 1
            /\ buyLog' = PurchaseOrder
            /\ last'.op = "confirmIntent_returns"
            /\ purchasedBalance' = last'.n
            /\ ~buyIsLoading']_vars
    /\ [][(buyLog' # buyLog /\ BuyFailed(buyLog')) =>
            /\ purchasedCalls' = purchasedCalls
            /\ "onPurchased" \notin {buyLog'[i] : i \in 1..Len(buyLog')}
            /\ buyError' # NULL
            /\ ~buyIsLoading']_vars

\* a purchase went through all steps and handed the server's balance to
\* onPurchased
C20_Witness ==
    /\ purchasedCalls = 1
    /\ purchasedBalance = 10
    /\ buyLog = PurchaseOrder
    /\ ~buyIsLoading
    /\ buyError = NULL

\* steps of the session model in which ApiClient.request sends a request
RequestOps ==
    {"login", "register", "loginWithWallet", "verify", "fetchBalance",
     "request", "loginOk", "walletOk"}

\* C21: after every step of login, wallet login, setToken, logout and
\* rehydration the ApiClient's token equals the store's token; a request
\* sent while the store holds a token carries Authorization: Bearer <that
\* token>, and a request sent while it holds none (after logout) carries no
\* Authorization header.
C21_ClientTokenFollowsStore ==
    [][/\ apiToken' = token'
       /\ last'.op \in RequestOps =>
            authorization' =
                IF token' = NULL
                THEN [scheme |-> "none", credentials |-> NULL]
                ELSE [scheme |-> "Bearer", credentials |-> token']]_vars

\* a request was sent with the token of a session started in this page load
C21_Witness ==
    /\ last.op = "request"
    /\ token = "jwt-2"
    /\ apiToken = "jwt-2"
    /\ authorization = [scheme |-> "Bearer", credentials |-> "jwt-2"]

\* C22: rehydration of a persisted user without email ends logged out
\* (user, token null, balance 0, not authenticated, no token in the
\* ApiClient); a persisted session whose user has an email is kept and its
\* token is restored to the ApiClient.
C22_RehydrationDropsGuest ==
    [][last'.op = "rehydrate" =>
         IF storage.user # NULL /\ storage.email = ""
         THEN /\ user' = NULL
              /\ token' = NULL
              /\ balance' = 0
              /\ ~isAuthenticated'
              /\ apiToken' = NULL
         ELSE storage.user # NULL =>
              /\ user' = storage.user
              /\ userEmail' = storage.email
              /\ token' = storage.token
              /\ balance' = storage.balance
              /\ isAuthenticated' = storage.isAuthenticated
              /\ apiToken' = storage.token]_vars

\* a persisted guest session was found and dropped by the page load
C22_Witness ==
    /\ last = [op |-> "rehydrate", ep |-> NULL, n |-> 1]
    /\ user = NULL
    /\ apiToken = NULL
    /\ storage.token = NULL
    /\ hasHydrated

\* C23: on the feed page an episode whose unlock the server has confirmed is
\* never shown as locked afterwards, whatever further unlock attempts,
\* success or rejection responses and narrative refetches follow.
C23_ConfirmedStaysUnlocked ==
    \A id \in EpisodeIds :
        (route = "/feed" /\ id \in serverUnlocked) => ~IsLocked(id)

\* a paid episode was confirmed, the narrative has not been refetched, and
\* a later attempt on another episode was rejected and rolled back
C23_Witness ==
    /\ route = "/feed"
    /\ "ep-c" \in serverUnlocked
    /\ "ep-c" \notin narrative
    /\ last.op = "onError"
    /\ last.ep = "ep-d"
    /\ ~IsLocked("ep-c")
    /\ IsLocked("ep-d")

\* C24: an auto-advance scheduled when the video at index i ended changes
\* the current index only if the index is still i when the delay elapses;
\* after a navigation during the delay the late timer leaves the index on
\* the slide the user chose.
C24_LateTimerKeepsIndex ==
    [][(last'.op = "autoAdvance" /\ currentIndex # last'.n) =>
            currentIndex' = currentIndex]_vars

\* C25: the videoUrl of a ready player (mounted, not loading, no error, a
\* URL set) is the URL returned for its current episode id and viewer id; a
\* late response or retry of a request made for earlier props does not
\* replace it.
C25_UrlMatchesCurrentProps ==
    (/\ plMounted
     /\ ~playerIsLoading
     /\ playerError = NULL
     /\ videoUrl # [ep |-> NULL, user |-> NULL])
        => videoUrl = [ep |-> plEpisodeId, user |-> plUserId]

\* C26: the pending-unlock marker is non-null only while the purchase modal
\* is open; whenever the modal is closed, by purchase success or by
\* dismissal, pendingUnlockEpisodeId is null.
C26_PendingOnlyWhileModalOpen ==
    (route \in {"/feed", "/stories"} /\ ~buyModalOpen)
        => pendingUnlockEpisodeId = NULL

\* C27: after any sequence of login (successful or failed), wallet login,
\* setToken, logout, updateBalance, fetchBalance and rehydration,
\* isAuthenticated is true exactly when user and token are both non-null.
C27_AuthenticatedIffSession ==
    isAuthenticated <=> (user # NULL /\ token # NULL)

\* a login attempt failed while a session started by setToken was in place
C27_Witness ==
    /\ last.op = "loginFailed"
    /\ isAuthenticated
    /\ user = "u1"
    /\ token = "jwt-2"
    /\ authError = "Invalid credentials"

\* C28: a login that fails (the login request fails and the demo register
\* fallback does not apply or fails too) records the error message and
\* clears isLoading, and neither the start of the attempt, nor the fallback
\* request, nor the failure changes user, token, balance, isAuthenticated
\* or the ApiClient's token.
C28_FailedLoginKeepsSession ==
    [][/\ last'.op = "loginFailed" =>
            /\ authError' \in Messages
            /\ ~authIsLoading'
       /\ last'.op \in {"login", "register", "loginFailed"} =>
            /\ user' = user
            /\ userEmail' = userEmail
            /\ token' = token
            /\ balance' = balance
            /\ isAuthenticated' = isAuthenticated
            /\ apiToken' = apiToken]_vars

\* a login failed while a session with a fetched balance was in place
C28_Witness ==
    /\ last.op = "loginFailed"
    /\ user = "u2"
    /\ token = "jwt-1"
    /\ apiToken = "jwt-1"
    /\ balance = 5
    /\ isAuthenticated
    /\ ~authIsLoading
    /\ authError = "Unauthorized"

\* C29: the loading flag is set exactly while a purchase is in flight;
\* while it is set the buy action does not start a purchase and a close
\* action changes nothing; the step that ends the purchase, by success or
\* by failure, clears it.
C29_LoadingGuardsModal ==
    /\ [](buyIsLoading <=> buyPc # "idle")
    /\ [][/\ buyIsLoading => last'.op # "buy"
          /\ (buyIsLoading /\ last'.op = "close") =>
                /\ modalOpen' = modalOpen
                /\ UNCHANGED <<buyIsLoading, buyPc, buyLog, buyError>>
          /\ (buyPc # "idle" /\ buyPc' = "idle") => ~buyIsLoading']_vars

\* the user tried to close the modal while the transaction was being
\* confirmed, and the modal stayed open
C29_Witness ==
    /\ last.op = "close"
    /\ buyIsLoading
    /\ buyPc = "confirmTransaction"
    /\ modalOpen

\* C30: in every state of a player, during retries and with two fetch
\* chains in flight alike, the loading flag and the error message are not
\* both set; and a player that became ready (not loading, a URL set) after
\* starting a single fetch chain has no error message.
C30_LoadingExcludesError ==
    /\ ~(playerIsLoading /\ playerError # NULL)
    /\ (/\ plMounted
        /\ chainsStarted = 1
        /\ ~playerIsLoading
        /\ videoUrl # [ep |-> NULL, user |-> NULL]) => playerError = NULL

\* a second chain was started while the first was in flight; one of them
\* has failed and left its message, the other is waiting for its retry
C30_Witness ==
    /\ chainsStarted = 2
    /\ playerError # NULL
    /\ ~playerIsLoading
    /\ \E ch \in BagToSet(chains) : ch.phase = "timer"

====
